---- MODULE Spec2Model ----
(***************************************************************************)
(* Model of extract_plant_apps.py: a one-shot script that reads            *)
(* plant_search_results.json, annotates every record of all_plant_apps     *)
(* with its membership in top_10_results, sorts the rows, writes           *)
(* plant_apps_analysis.csv and prints a summary.                           *)
(*                                                                         *)
(* Text is a sequence of one-character strings.  A JSON scalar is a record *)
(* [t, n, s]: t is the Python type ("null", "int", "float", "str") or      *)
(* "absent" for a key the JSON object does not have; n is the number (a    *)
(* float is kept in tenths, 4.5 is 45); s is the text of a string.         *)
(***************************************************************************)
EXTENDS Integers, Sequences, FiniteSets, TLC

VARIABLES input, outFile, data, all_plant_apps, top_10_results, top_10_ids,
          csv_data, idx, stdout, pc, err

vars == <<input, outFile, data, all_plant_apps, top_10_results, top_10_ids,
          csv_data, idx, stdout, pc, err>>

(***************************************************************************)
(* Bounds of the input documents.                                          *)
(***************************************************************************)
MaxApps == 2

MaxTop == 2

MaxOver == 2

MaxDescOver == 2

(***************************************************************************)
(* Program constants.                                                      *)
(***************************************************************************)
PreviewLen == 200

SummaryLimit == 10

(***************************************************************************)
(* JSON scalars.                                                           *)
(***************************************************************************)
Null == [t |-> "null", n |-> 0, s |-> <<>>]

Absent == [t |-> "absent", n |-> 0, s |-> <<>>]

IntV(k) == [t |-> "int", n |-> k, s |-> <<>>]

FloatV(tenths) == [t |-> "float", n |-> tenths, s |-> <<>>]

StrV(txt) == [t |-> "str", n |-> 0, s |-> txt]

DigitChar == <<"0", "1", "2", "3", "4", "5", "6", "7", "8", "9">>

DigitSet == {DigitChar[i] : i \in 1..10}

DigitVal(c) == (CHOOSE i \in 1..10 : DigitChar[i] = c) - 1

RECURSIVE Digits(_)
Digits(k) == IF k < 10 THEN <<DigitChar[k + 1]>>
             ELSE Digits(k \div 10) \o <<DigitChar[(k % 10) + 1]>>

Abs(k) == IF k < 0 THEN -k ELSE k

SignText(k) == IF k < 0 THEN <<"-">> ELSE <<>>

\* str(v) of Python: the decimal numeral of an int, the repr of a float
\* (always with one fractional digit here), "None" for None, the text itself
\* for a str.
PyStr(v) ==
    CASE v.t = "int" -> SignText(v.n) \o Digits(Abs(v.n))
      [] v.t = "float" -> SignText(v.n) \o Digits(Abs(v.n) \div 10) \o <<".">>
                          \o Digits(Abs(v.n) % 10)
      [] v.t = "str" -> v.s
      [] OTHER -> <<"N", "o", "n", "e">>

\* bool(v) of Python: None, 0, 0.0 and "" are falsy.
Truthy(v) ==
    CASE v.t = "int" -> v.n # 0
      [] v.t = "float" -> v.n # 0
      [] v.t = "str" -> v.s # <<>>
      [] OTHER -> FALSE

AllDigits(txt) == Len(txt) > 0 /\ \A i \in 1..Len(txt) : txt[i] \in DigitSet

RECURSIVE NatOf(_)
NatOf(txt) == IF txt = <<>> THEN 0
              ELSE NatOf(SubSeq(txt, 1, Len(txt) - 1)) * 10 + DigitVal(txt[Len(txt)])

\* float(text) on the numerals [+-]digits[.digit]; any other text raises
\* ValueError.  The result is in tenths.
ParseFloat(txt) ==
    LET signed == Len(txt) > 0 /\ txt[1] \in {"-", "+"}
        body == IF signed THEN Tail(txt) ELSE txt
        sgn == IF signed /\ txt[1] = "-" THEN -1 ELSE 1
        m == Len(body)
    IN  IF AllDigits(body)
        THEN [ok |-> TRUE, v |-> sgn * NatOf(body) * 10]
        ELSE IF m >= 3 /\ body[m - 1] = "." /\ body[m] \in DigitSet
                /\ AllDigits(SubSeq(body, 1, m - 2))
        THEN [ok |-> TRUE,
              v |-> sgn * (NatOf(SubSeq(body, 1, m - 2)) * 10 + DigitVal(body[m]))]
        ELSE [ok |-> FALSE, v |-> 0]

\* float(v): the result in tenths, ok = FALSE when float() raises.
ToFloat(v) ==
    CASE v.t = "int" -> [ok |-> TRUE, v |-> v.n * 10]
      [] v.t = "float" -> [ok |-> TRUE, v |-> v.n]
      [] v.t = "str" -> ParseFloat(v.s)
      [] OTHER -> [ok |-> FALSE, v |-> 0]

\* sep.join(list)
RECURSIVE Join(_, _)
Join(sep, l) == IF l = <<>> THEN <<>>
                ELSE IF Len(l) = 1 THEN l[1]
                ELSE l[1] \o sep \o Join(sep, Tail(l))

Min(a, b) == IF a < b THEN a ELSE b

\* seq[:k]
Take(seq, k) == SubSeq(seq, 1, Min(k, Len(seq)))

YES == <<"Y", "E", "S">>

NO == <<"N", "O">>

Ellipsis == <<".", ".", ".">>

CommaSpace == <<",", " ">>

fieldnames == <<"app_id", "app_name", "category", "rating", "one_liner",
                "in_top_10", "matched_keywords", "relevance_score",
                "match_reason", "description_preview">>

AppKeys == <<"id", "name", "category", "rating", "one_liner", "description">>

(***************************************************************************)
(* The script's computations.                                              *)
(***************************************************************************)
\* set(str(app['id']) for app in top_10_results)
TopIds(top) == {PyStr(top[j].id) : j \in 1..Len(top)}

IsInTop10Uncoerced(app_id, ids) == app_id.t = "str" /\ app_id.s \in ids

\* str(app['id']) in top_10_ids
IsInTop10(app_id, ids) == PyStr(app_id) \in ids

FindTopAppLast(app_id, top) ==
    LET hits == {j \in 1..Len(top) : PyStr(top[j].id) = PyStr(app_id)}
    IN  IF hits = {} THEN 0 ELSE CHOOSE j \in hits : \A k \in hits : k <= j

\* The scan "for top_app in top_10_results: if str(..) == str(..): ... break":
\* the position of the first entry with the same identifier, 0 when the scan
\* ends without a match.
FindTopApp(app_id, top) ==
    LET hits == {j \in 1..Len(top) : PyStr(top[j].id) = PyStr(app_id)}
    IN  IF hits = {} THEN 0 ELSE CHOOSE j \in hits : \A k \in hits : j <= k

\* dict.get(key, default)
Get(v, default) == IF v.t = "absent" THEN default ELSE v

\* top_app.get('matched_keywords', [])
GetKeywords(kw) == IF kw.present THEN kw.l ELSE <<>>

DescriptionPreviewOffByOne(d) ==
    IF Len(d) >= PreviewLen THEN SubSeq(d, 1, PreviewLen) \o Ellipsis ELSE d

\* app['description'][:200] + '...' if len(app['description']) > 200
\* else app['description']
DescriptionPreview(d) ==
    IF Len(d) > PreviewLen THEN Take(d, PreviewLen) \o Ellipsis ELSE d

FirstMissingNone(app) == "none"

\* The first key of the record whose subscript raises KeyError, in the order
\* the loop body evaluates them; "none" when all six are present.
FirstMissing(app) ==
    LET missing == {k \in 1..Len(AppKeys) : app[AppKeys[k]].t = "absent"}
    IN  IF missing = {} THEN "none"
        ELSE AppKeys[CHOOSE k \in missing : \A m \in missing : k <= m]

MakeRowCoerced(app, top, ids) ==
    LET is_in_top_10 == IsInTop10(app.id, ids)
        j == IF is_in_top_10 THEN FindTopApp(app.id, top) ELSE 0
    IN  [app_id |-> app.id,
         app_name |-> app.name,
         category |-> app.category,
         rating |-> IF Truthy(app.rating) THEN app.rating ELSE IntV(0),
         one_liner |-> app.one_liner,
         in_top_10 |-> StrV(IF is_in_top_10 THEN YES ELSE NO),
         matched_keywords |->
             StrV(IF j = 0 THEN <<>>
                  ELSE Join(CommaSpace, GetKeywords(top[j].matched_keywords))),
         relevance_score |->
             IF j = 0 THEN StrV(<<>>) ELSE Get(top[j].relevance_score, StrV(<<>>)),
         match_reason |->
             IF j = 0 THEN StrV(<<>>) ELSE Get(top[j].match_reason, StrV(<<>>)),
         description_preview |-> StrV(DescriptionPreview(app.description.s))]

\* One iteration of "for app in all_plant_apps": the dictionary appended to
\* csv_data.
MakeRow(app, top, ids) ==
    LET is_in_top_10 == IsInTop10(app.id, ids)
        j == IF is_in_top_10 THEN FindTopApp(app.id, top) ELSE 0
    IN  [app_id |-> app.id,
         app_name |-> app.name,
         category |-> app.category,
         rating |-> app.rating,
         one_liner |-> app.one_liner,
         in_top_10 |-> StrV(IF is_in_top_10 THEN YES ELSE NO),
         matched_keywords |->
             StrV(IF j = 0 THEN <<>>
                  ELSE Join(CommaSpace, GetKeywords(top[j].matched_keywords))),
         relevance_score |->
             IF j = 0 THEN StrV(<<>>) ELSE Get(top[j].relevance_score, StrV(<<>>)),
         match_reason |->
             IF j = 0 THEN StrV(<<>>) ELSE Get(top[j].match_reason, StrV(<<>>)),
         description_preview |-> StrV(DescriptionPreview(app.description.s))]

AppendRowUnique(rows, row) ==
    IF \E i \in 1..Len(rows) : rows[i].app_id = row.app_id THEN rows
    ELSE Append(rows, row)

\* csv_data.append({...})
AppendRow(rows, row) == Append(rows, row)

RatingKeyAscending(rating) == IF Truthy(rating) THEN ToFloat(rating).v ELSE 0

\* -float(x['rating']) if x['rating'] else 0
RatingKey(rating) == IF Truthy(rating) THEN -ToFloat(rating).v ELSE 0

SortKeyNoGroup(x) == <<0, RatingKey(x.rating)>>

\* lambda x: (x['in_top_10'] == 'NO', -float(x['rating']) if x['rating'] else 0)
\* with False, True as 0, 1.
SortKey(x) == <<IF x.in_top_10 = StrV(NO) THEN 1 ELSE 0, RatingKey(x.rating)>>

\* The key function raises ValueError on a truthy rating float() rejects.
SortKeyRaises(x) == Truthy(x.rating) /\ ~ToFloat(x.rating).ok

\* Tuple comparison a < b.
KeyLess(a, b) == a[1] < b[1] \/ (a[1] = b[1] /\ a[2] < b[2])

\* x goes in front of the first row with a larger key: rows with equal keys
\* keep their order (list.sort is stable).
InsertSorted(sorted, x) ==
    LET later == {i \in 1..Len(sorted) : KeyLess(SortKey(x), SortKey(sorted[i]))}
        at == IF later = {} THEN Len(sorted) + 1
              ELSE CHOOSE i \in later : \A k \in later : i <= k
    IN  SubSeq(sorted, 1, at - 1) \o <<x>> \o SubSeq(sorted, at, Len(sorted))

\* csv_data.sort(key=...)
RECURSIVE SortedRows(_)
SortedRows(rows) ==
    IF rows = <<>> THEN <<>>
    ELSE InsertSorted(SortedRows(SubSeq(rows, 1, Len(rows) - 1)), rows[Len(rows)])

\* The text csv.writer writes for a value: None as the empty field, a string
\* as itself, any other value as str(value).
CsvCell(v) == IF v.t = "null" \/ v.t = "absent" THEN <<>> ELSE PyStr(v)

FieldSet == {fieldnames[k] : k \in 1..Len(fieldnames)}

CsvRow(row) == [f \in FieldSet |-> CsvCell(row[f])]

\* writer.writerows(csv_data)
WriteRows(rows) == [i \in 1..Len(rows) |-> CsvRow(rows[i])]

CountFlagDistinct(rows, flag) ==
    Cardinality({rows[i].app_id : i \in {k \in 1..Len(rows) : rows[k].in_top_10 = StrV(flag)}})

\* sum(1 for app in csv_data if app['in_top_10'] == flag)
CountFlag(rows, flag) ==
    Cardinality({i \in 1..Len(rows) : rows[i].in_top_10 = StrV(flag)})

IsYes(row) == row.in_top_10 = StrV(YES)

SummaryRowsUnlimited(rows) == SelectSeq(rows, IsYes)

\* [app for app in csv_data if app['in_top_10'] == 'YES'][:10]
SummaryRows(rows) == Take(SelectSeq(rows, IsYes), SummaryLimit)

\* A line of standard output.  kind "block" is one numbered block of the
\* final loop: n is i+1 and the texts are the f-string substitutions.
Line(kind, n) == [kind |-> kind, n |-> n, name |-> <<>>, category |-> <<>>,
                  rating |-> <<>>, keywords |-> <<>>, one_liner |-> <<>>]

Block(i, app) == [kind |-> "block", n |-> i,
                  name |-> PyStr(app.app_name),
                  category |-> PyStr(app.category),
                  rating |-> PyStr(app.rating),
                  keywords |-> PyStr(app.matched_keywords),
                  one_liner |-> PyStr(app.one_liner)]

Blocks(rows) == [i \in 1..Len(rows) |-> Block(i, rows[i])]

(***************************************************************************)
(* Input documents.  plant_search_results.json is absent, is not JSON, or  *)
(* holds an object with or without each of the two keys.                   *)
(***************************************************************************)
RECURSIVE SeqsOfLen(_, _)
SeqsOfLen(S, k) == IF k = 0 THEN {<<>>}
                   ELSE {Append(q, x) : q \in SeqsOfLen(S, k - 1), x \in S}

SeqsUpTo(S, k) == UNION {SeqsOfLen(S, m) : m \in 0..k}

App(id, name, rating, description) ==
    [id |-> id, name |-> name, category |-> StrV(<<"c", "a", "t">>),
     rating |-> rating, one_liner |-> StrV(<<"o", "n", "e">>),
     description |-> description]

TopApp(id, keywords, score, reason) ==
    [id |-> id, matched_keywords |-> keywords, relevance_score |-> score,
     match_reason |-> reason]

Keywords(l) == [present |-> TRUE, l |-> l]

NoKeywords == [present |-> FALSE, l |-> <<>>]

\* A description of k characters, the i-th being the last digit of i.
Desc(k) == StrV([i \in 1..k |-> DigitChar[(i % 10) + 1]])

NameOf(id) == StrV(<<"A">> \o PyStr(id))

Ratings == {Null, IntV(0), StrV(<<>>), FloatV(45), StrV(<<"4", ".", "9">>),
            StrV(<<"0">>), FloatV(-10), StrV(<<"n", "/", "a">>)}

AppIds == {IntV(1), IntV(2), StrV(<<"1">>)}

T1 == TopApp(StrV(<<"1">>), Keywords(<< <<"w", "a", "t", "e", "r">> >>),
             FloatV(9), StrV(<<"x">>))

T2 == TopApp(IntV(1), Keywords(<< <<"s", "u", "n">>, <<"s", "o", "i", "l">> >>),
             Absent, StrV(<<"y">>))

T3 == TopApp(IntV(2), Keywords(<<>>), StrV(<<"0", ".", "5">>), Absent)

T4 == TopApp(StrV(<<"0", "1">>), NoKeywords, IntV(1), StrV(<<"z">>))

T5 == TopApp(Absent, Keywords(<< <<"w", "a", "t", "e", "r">> >>),
             FloatV(9), StrV(<<"x">>))

Doc(apps, top) == [has_apps |-> TRUE, has_top |-> TRUE, apps |-> apps, top |-> top]

NoDoc == [has_apps |-> FALSE, has_top |-> FALSE, apps |-> <<>>, top |-> <<>>]

File(doc) == [exists |-> TRUE, json_ok |-> TRUE, doc |-> doc]

\* Records differing in identifier and rating, against few top results.
SortRecords == {App(id, NameOf(id), r, Desc(2)) : id \in {IntV(1), IntV(2)}, r \in Ratings}

SortDocs == {Doc(apps, top) : apps \in SeqsUpTo(SortRecords, MaxApps),
                              top \in {<<>>, <<T1>>, <<T3>>, <<T3, T1>>}}

\* Records differing in identifier, against every sequence of top results.
JoinRecords == {App(id, NameOf(id), FloatV(45), Desc(2)) : id \in AppIds}

JoinDocs == {Doc(apps, top) : apps \in SeqsUpTo(JoinRecords, MaxApps),
                              top \in SeqsUpTo({T1, T2, T3, T4, T5}, MaxTop)}

\* Records differing in the length of the description.
DescLens == {0, PreviewLen - 1, PreviewLen, PreviewLen + 1, PreviewLen + MaxDescOver}

PreviewRecords == {App(IntV(1), NameOf(IntV(1)), FloatV(45), Desc(k)) : k \in DescLens}

PreviewDocs == {Doc(apps, top) : apps \in SeqsUpTo(PreviewRecords, MaxApps),
                                 top \in {<<>>, <<T2>>}}

\* More records than the summary prints: the k-th has the name str(k).
BigApp(k) == App(<<IntV(1), StrV(<<"1">>), IntV(2)>>[(k % 3) + 1], StrV(Digits(k)),
                 <<FloatV(45), Null, StrV(<<"4", ".", "9">>), IntV(3)>>[(k % 4) + 1],
                 Desc(2))

BigDocs == {Doc([k \in 1..m |-> BigApp(k)], top) :
                m \in (SummaryLimit - 1)..(SummaryLimit + MaxOver),
                top \in {<<T1>>, <<T3, T1>>}}

\* Records without one of the six keys, between complete records.
Without(app, key) == [app EXCEPT ![key] = Absent]

Good == App(IntV(1), NameOf(IntV(1)), FloatV(45), Desc(2))

FaultRecords == {Without(Good, AppKeys[k]) : k \in 1..Len(AppKeys)}

FaultDocs == {Doc(pre \o <<bad>> \o post, top) :
                  pre \in SeqsUpTo({Good}, MaxApps - 1), bad \in FaultRecords,
                  post \in SeqsUpTo({Good}, 1), top \in {<<>>, <<T1>>}}

\* Objects without one of the two keys, or without both.
KeylessDocs == {[Doc(<<Good>>, <<T1>>) EXCEPT !.has_apps = a, !.has_top = t] :
                    a \in BOOLEAN, t \in BOOLEAN} \ {Doc(<<Good>>, <<T1>>)}

Inputs == {[exists |-> FALSE, json_ok |-> FALSE, doc |-> NoDoc],
           [exists |-> TRUE, json_ok |-> FALSE, doc |-> NoDoc]}
          \cup {File(d) : d \in SortDocs \cup JoinDocs \cup PreviewDocs
                               \cup BigDocs \cup FaultDocs \cup KeylessDocs}

\* plant_apps_analysis.csv before the run: absent, or left by an earlier run.
NoFile == [exists |-> FALSE, opened |-> FALSE, header |-> <<>>, rows |-> <<>>]

OldFile == [exists |-> TRUE, opened |-> FALSE, header |-> fieldnames,
            rows |-> WriteRows(<<MakeRow(Good, <<>>, {})>>)]

(***************************************************************************)
(* The run.  pc is the statement the script is about to execute; "error"   *)
(* is the state after an uncaught exception, "done" after the last print.  *)
(***************************************************************************)
Init ==
    /\ input \in Inputs
    /\ outFile \in {NoFile, OldFile}
    /\ data = NoDoc
    /\ all_plant_apps = <<>>
    /\ top_10_results = <<>>
    /\ top_10_ids = {}
    /\ csv_data = <<>>
    /\ idx = 1
    /\ stdout = <<>>
    /\ pc = "load"
    /\ err = "none"

Raise(exception) ==
    /\ pc' = "error"
    /\ err' = exception

\* with open('plant_search_results.json', 'r') as f: data = json.load(f)
Load ==
    /\ pc = "load"
    /\ IF ~input.exists
       THEN Raise("FileNotFoundError") /\ UNCHANGED data
       ELSE IF ~input.json_ok
       THEN Raise("JSONDecodeError") /\ UNCHANGED data
       ELSE data' = input.doc /\ pc' = "extract" /\ UNCHANGED err
    /\ UNCHANGED <<input, outFile, all_plant_apps, top_10_results, top_10_ids,
                   csv_data, idx, stdout>>

\* all_plant_apps = data['all_plant_apps'];
\* top_10_results = data['top_10_results']; the two count lines.
Extract ==
    /\ pc = "extract"
    /\ IF ~data.has_apps
       THEN Raise("KeyError") /\ UNCHANGED <<all_plant_apps, top_10_results, stdout>>
       ELSE IF ~data.has_top
       THEN /\ Raise("KeyError")
            /\ all_plant_apps' = data.apps
            /\ UNCHANGED <<top_10_results, stdout>>
       ELSE /\ all_plant_apps' = data.apps
            /\ top_10_results' = data.top
            /\ stdout' = stdout \o <<Line("total", Len(data.apps)),
                                     Line("top", Len(data.top))>>
            /\ pc' = "index"
            /\ UNCHANGED err
    /\ UNCHANGED <<input, outFile, data, top_10_ids, csv_data, idx>>

\* top_10_ids = set(...); csv_data = []
IndexTop ==
    /\ pc = "index"
    /\ IF \E j \in 1..Len(top_10_results) : top_10_results[j].id.t = "absent"
       THEN Raise("KeyError") /\ UNCHANGED top_10_ids
       ELSE top_10_ids' = TopIds(top_10_results) /\ pc' = "annotate" /\ UNCHANGED err
    /\ UNCHANGED <<input, outFile, data, all_plant_apps, top_10_results,
                   csv_data, idx, stdout>>

\* One iteration of "for app in all_plant_apps".
Annotate ==
    /\ pc = "annotate"
    /\ idx <= Len(all_plant_apps)
    /\ LET app == all_plant_apps[idx]
       IN  IF FirstMissing(app) # "none"
           THEN Raise("KeyError") /\ UNCHANGED <<csv_data, idx>>
           ELSE /\ csv_data' = AppendRow(csv_data,
                                         MakeRow(app, top_10_results, top_10_ids))
                /\ idx' = idx + 1
                /\ UNCHANGED <<pc, err>>
    /\ UNCHANGED <<input, outFile, data, all_plant_apps, top_10_results,
                   top_10_ids, stdout>>

\* csv_data.sort(key=...), after the loop has ended.
Sort ==
    /\ pc = "annotate"
    /\ idx > Len(all_plant_apps)
    /\ IF \E i \in 1..Len(csv_data) : SortKeyRaises(csv_data[i])
       THEN Raise("ValueError") /\ UNCHANGED csv_data
       ELSE csv_data' = SortedRows(csv_data) /\ pc' = "open" /\ UNCHANGED err
    /\ UNCHANGED <<input, outFile, data, all_plant_apps, top_10_results,
                   top_10_ids, idx, stdout>>

\* open('plant_apps_analysis.csv', 'w', ...): the file is created or emptied.
OpenOutput ==
    /\ pc = "open"
    /\ outFile' = [exists |-> TRUE, opened |-> TRUE, header |-> <<>>, rows |-> <<>>]
    /\ pc' = "write"
    /\ UNCHANGED <<input, data, all_plant_apps, top_10_results, top_10_ids,
                   csv_data, idx, stdout, err>>

\* writer.writeheader(); writer.writerows(csv_data); the file is closed.
WriteCsv ==
    /\ pc = "write"
    /\ outFile' = [outFile EXCEPT !.header = fieldnames, !.rows = WriteRows(csv_data)]
    /\ pc' = "counts"
    /\ UNCHANGED <<input, data, all_plant_apps, top_10_results, top_10_ids,
                   csv_data, idx, stdout, err>>

\* "CSV file created", "Apps in top 10", "Apps not in top 10".
PrintCounts ==
    /\ pc = "counts"
    /\ stdout' = stdout \o <<Line("created", 0),
                             Line("in_top_10", CountFlag(csv_data, YES)),
                             Line("not_in_top_10", CountFlag(csv_data, NO))>>
    /\ pc' = "summary"
    /\ UNCHANGED <<input, outFile, data, all_plant_apps, top_10_results,
                   top_10_ids, csv_data, idx, err>>

\* "=== TOP 10 ALGORITHM RESULTS ===" and the numbered blocks.
PrintSummary ==
    /\ pc = "summary"
    /\ stdout' = stdout \o <<Line("heading", 0)>> \o Blocks(SummaryRows(csv_data))
    /\ pc' = "done"
    /\ UNCHANGED <<input, outFile, data, all_plant_apps, top_10_results,
                   top_10_ids, csv_data, idx, err>>

Next ==
    \/ Load
    \/ Extract
    \/ IndexTop
    \/ Annotate
    \/ Sort
    \/ OpenOutput
    \/ WriteCsv
    \/ PrintCounts
    \/ PrintSummary

Spec == Init /\ [][Next]_vars

(***************************************************************************)
(* Properties.                                                             *)
(***************************************************************************)
Sorted == pc \in {"open", "write", "counts", "summary", "done"}

Written == pc \in {"counts", "summary", "done"}

Count(seq, P(_)) == Cardinality({i \in 1..Len(seq) : P(seq[i])})

\* C1: once the file is written it holds exactly one data row per record of
\* all_plant_apps: as many rows as records, and for every identifier as many
\* rows as there are records with that identifier.
C1_OneRowPerRecord ==
    Written =>
        LET rows == outFile.rows
            apps == input.doc.apps
        IN  /\ Len(rows) = Len(apps)
            /\ \A a \in 1..Len(apps) :
                   Cardinality({i \in 1..Len(rows) : rows[i].app_id = PyStr(apps[a].id)})
                   = Cardinality({i \in 1..Len(apps) : PyStr(apps[i].id) = PyStr(apps[a].id)})

C1_Witness ==
    /\ pc = "done"
    /\ Len(outFile.rows) = 2
    /\ outFile.rows[1].app_id = outFile.rows[2].app_id
    /\ input.doc.apps[1].id # input.doc.apps[2].id

\* C2: a row's in_top_10 is "YES" exactly when the text of its identifier is
\* the text of the identifier of some entry of top_10_results, and "NO"
\* otherwise; this holds of the rows in memory and of the rows in the file.
C2_FlagIffInTop ==
    LET top == input.doc.top
        InTop(txt) == \E j \in 1..Len(top) : PyStr(top[j].id) = txt
    IN  /\ \A i \in 1..Len(csv_data) :
               /\ csv_data[i].in_top_10 \in {StrV(YES), StrV(NO)}
               /\ csv_data[i].in_top_10 = StrV(YES) <=> InTop(PyStr(csv_data[i].app_id))
        /\ Written =>
               \A i \in 1..Len(outFile.rows) :
                   /\ outFile.rows[i].in_top_10 \in {YES, NO}
                   /\ outFile.rows[i].in_top_10 = YES <=> InTop(outFile.rows[i].app_id)

C2_Witness ==
    /\ pc = "done"
    /\ \E i \in 1..Len(csv_data) :
           /\ csv_data[i].app_id.t = "int"
           /\ outFile.rows[i].in_top_10 = YES
    /\ \A j \in 1..Len(top_10_results) : top_10_results[j].id.t = "str"
    /\ \E i \in 1..Len(csv_data) : outFile.rows[i].in_top_10 = NO

\* C3: a "YES" row carries the ", "-join of the keyword list of the first
\* entry of top_10_results with its identifier (the empty text when the list
\* is empty or the entry has none) and that entry's relevance_score and
\* match_reason (the empty text where the entry has none); a "NO" row carries
\* three empty texts.
C3_FirstMatch ==
    \A i \in 1..Len(csv_data) :
        LET row == csv_data[i]
            top == top_10_results
            Same(j) == PyStr(top[j].id) = PyStr(row.app_id)
        IN  /\ row.in_top_10 = StrV(YES) =>
                \E j \in 1..Len(top) :
                    /\ Same(j)
                    /\ \A k \in 1..(j - 1) : ~Same(k)
                    /\ row.matched_keywords =
                           StrV(IF top[j].matched_keywords.present
                                THEN Join(CommaSpace, top[j].matched_keywords.l)
                                ELSE <<>>)
                    /\ row.relevance_score =
                           (IF top[j].relevance_score.t = "absent" THEN StrV(<<>>)
                            ELSE top[j].relevance_score)
                    /\ row.match_reason =
                           (IF top[j].match_reason.t = "absent" THEN StrV(<<>>)
                            ELSE top[j].match_reason)
            /\ row.in_top_10 = StrV(NO) =>
                /\ row.matched_keywords = StrV(<<>>)
                /\ row.relevance_score = StrV(<<>>)
                /\ row.match_reason = StrV(<<>>)

C3_Witness ==
    /\ pc = "done"
    /\ top_10_results = <<T2, T1>>
    /\ \E i \in 1..Len(csv_data) :
           /\ csv_data[i].app_id = StrV(<<"1">>)
           /\ csv_data[i].matched_keywords =
                  StrV(<<"s", "u", "n", ",", " ", "s", "o", "i", "l">>)
           /\ csv_data[i].match_reason = StrV(<<"y">>)

\* The number a rating field of the file stands for: the empty field is 0.
CellNumber(txt) == IF txt = <<>> THEN 0 ELSE ParseFloat(txt).v

\* C4: in the written file no "NO" row precedes a "YES" row, and among rows
\* of equal in_top_10 the rating, read as a number, never increases.
C4_PartitionedAndDescending ==
    Written =>
        \A i, j \in 1..Len(outFile.rows) :
            i < j =>
                LET a == outFile.rows[i]
                    b == outFile.rows[j]
                IN  /\ ~(a.in_top_10 = NO /\ b.in_top_10 = YES)
                    /\ a.in_top_10 = b.in_top_10 =>
                           CellNumber(a.rating) >= CellNumber(b.rating)

C4_Witness ==
    /\ pc = "done"
    /\ Len(outFile.rows) = 2
    /\ outFile.rows[1].in_top_10 = YES
    /\ outFile.rows[2].in_top_10 = NO
    /\ PyStr(input.doc.apps[1].id) = outFile.rows[2].app_id
    /\ CellNumber(outFile.rows[1].rating) < CellNumber(outFile.rows[2].rating)

\* C5: the description_preview of a record is its description when that has
\* at most 200 characters, and otherwise the first 200 characters of the
\* description followed by "...".
C5_Preview ==
    pc = "annotate" =>
        \A i \in 1..Len(csv_data) :
            LET d == all_plant_apps[i].description.s
                p == csv_data[i].description_preview.s
            IN  /\ Len(d) <= 200 => p = d
                /\ Len(d) > 200 =>
                       /\ Len(p) = 203
                       /\ \A k \in 1..200 : p[k] = d[k]
                       /\ \A k \in 201..203 : p[k] = "."

C5_Witness ==
    /\ pc = "annotate"
    /\ Len(csv_data) = 2
    /\ Len(all_plant_apps[1].description.s) = 200
    /\ Len(csv_data[1].description_preview.s) = 200
    /\ Len(all_plant_apps[2].description.s) = 201
    /\ Len(csv_data[2].description_preview.s) = 203

\* The four classes of error: no input file, malformed JSON, an object
\* without one of the two keys, a record without a required key.
Faulty ==
    \/ ~input.exists
    \/ ~input.json_ok
    \/ ~input.doc.has_apps
    \/ ~input.doc.has_top
    \/ \E i \in 1..Len(input.doc.apps) :
           \E k \in 1..Len(AppKeys) : input.doc.apps[i][AppKeys[k]].t = "absent"
    \/ \E j \in 1..Len(input.doc.top) : input.doc.top[j].id.t = "absent"

\* C6: a run on an input with one of the four errors never reaches the
\* statement that opens the output file and can only end in the error state;
\* in such a run, and in every run that ended in the error state, the output
\* file is as it was before the run, and no step ever changes it.
C6_FatalBeforeWrite ==
    /\ [](Faulty => /\ ~Sorted
                    /\ outFile \in {NoFile, OldFile}
                    /\ (~ENABLED Next) => pc = "error")
    /\ [](pc = "error" => outFile \in {NoFile, OldFile})
    /\ [][Faulty \/ pc' = "error" => outFile' = outFile]_vars

C6_Witness ==
    /\ pc = "error"
    /\ err = "KeyError"
    /\ Len(csv_data) = 1
    /\ Len(all_plant_apps) > 1
    /\ outFile = OldFile

PrintedCount(kind) ==
    LET at == CHOOSE i \in 1..Len(stdout) : stdout[i].kind = kind
    IN  stdout[at].n

\* C7: once the counts are printed, "Apps in top 10" is the number of "YES"
\* rows of the file, "Apps not in top 10" the number of "NO" rows, and their
\* sum is the size of all_plant_apps.
C7_PrintedCounts ==
    pc \in {"summary", "done"} =>
        LET IsYesCell(r) == r.in_top_10 = YES
            IsNoCell(r) == r.in_top_10 = NO
        IN  /\ Count(stdout, LAMBDA l : l.kind = "in_top_10") = 1
            /\ Count(stdout, LAMBDA l : l.kind = "not_in_top_10") = 1
            /\ PrintedCount("in_top_10") = Count(outFile.rows, IsYesCell)
            /\ PrintedCount("not_in_top_10") = Count(outFile.rows, IsNoCell)
            /\ PrintedCount("in_top_10") + PrintedCount("not_in_top_10")
               = Len(input.doc.apps)

C7_Witness ==
    /\ pc = "done"
    /\ PrintedCount("in_top_10") = 2
    /\ Len(top_10_results) = 1
    /\ PrintedCount("not_in_top_10") = 0

\* C8 as stated: after the sort, a row with a falsy rating comes after every
\* row of its membership group whose rating is not falsy.
C8_FalsyLast ==
    Sorted =>
        \A i, j \in 1..Len(csv_data) :
            (/\ csv_data[i].in_top_10 = csv_data[j].in_top_10
             /\ ~Truthy(csv_data[i].rating)
             /\ Truthy(csv_data[j].rating)) => j < i

\* C8, amended: after the sort, a row with a falsy rating is placed as a row
\* of rating 0: within its membership group it comes after every row whose
\* rating is a number above 0 and before every row whose rating is a number
\* below 0.
C8_FalsyAsZero ==
    Sorted =>
        \A i, j \in 1..Len(csv_data) :
            (/\ csv_data[i].in_top_10 = csv_data[j].in_top_10
             /\ ~Truthy(csv_data[i].rating)
             /\ Truthy(csv_data[j].rating)) =>
                /\ ToFloat(csv_data[j].rating).v > 0 => j < i
                /\ ToFloat(csv_data[j].rating).v < 0 => i < j

C8_Witness ==
    /\ pc = "done"
    /\ Len(csv_data) = 2
    /\ csv_data[1].in_top_10 = csv_data[2].in_top_10
    /\ csv_data[2].rating = Null
    /\ all_plant_apps[1].rating = Null
    /\ csv_data[1].rating = StrV(<<"4", ".", "9">>)

\* The rows of a sequence, each with the number of times it occurs.
SameRows(a, b) ==
    /\ Len(a) = Len(b)
    /\ \A i \in 1..Len(a) :
           Cardinality({k \in 1..Len(a) : a[k] = a[i]})
           = Cardinality({k \in 1..Len(b) : b[k] = a[i]})

\* C9: while the rows are built, the rating of the i-th row is the rating of
\* the i-th record, whatever its type or truth value; the sort step leaves
\* csv_data with the same rows as before, each as often as before.
C9_RatingUntouched ==
    /\ [](pc = "annotate" =>
              \A i \in 1..Len(csv_data) : csv_data[i].rating = all_plant_apps[i].rating)
    /\ [][pc = "annotate" /\ pc' = "open" => SameRows(csv_data, csv_data')]_vars

C9_Witness ==
    /\ pc = "open"
    /\ Len(csv_data) = 2
    /\ csv_data[1].in_top_10 = csv_data[2].in_top_10
    /\ csv_data[1].rating = StrV(<<"4", ".", "9">>)
    /\ csv_data[2].rating = StrV(<<>>)
    /\ all_plant_apps[1].rating = StrV(<<>>)

PrintedBlocks == SelectSeq(stdout, LAMBDA l : l.kind = "block")

IsYesRow(r) == r.in_top_10 = YES

\* C10: blocks are printed only once the file is written; at the end of the
\* run there are min(10, number of "YES" rows) of them, the i-th is numbered
\* i and shows the name, category, rating, keywords and one-liner of the
\* i-th "YES" row of the file (a rating the file holds as the empty field is
\* shown as None when it was None).
C10_SummaryBlocks ==
    /\ PrintedBlocks # <<>> => pc = "done" /\ outFile.opened
    /\ pc = "done" =>
           LET yes == SelectSeq(outFile.rows, IsYesRow)
               inMemory == SelectSeq(csv_data, IsYes)
               blocks == PrintedBlocks
           IN  /\ Len(blocks) = (IF Len(yes) < 10 THEN Len(yes) ELSE 10)
               /\ \A i \in 1..Len(blocks) :
                      /\ blocks[i].n = i
                      /\ blocks[i].name = yes[i].app_name
                      /\ blocks[i].category = yes[i].category
                      /\ blocks[i].keywords = yes[i].matched_keywords
                      /\ blocks[i].one_liner = yes[i].one_liner
                      /\ blocks[i].rating =
                             (IF inMemory[i].rating = Null THEN <<"N", "o", "n", "e">>
                              ELSE yes[i].rating)

C10_Witness ==
    /\ pc = "done"
    /\ Len(SelectSeq(outFile.rows, IsYesRow)) = 12
    /\ Len(PrintedBlocks) = 10
    /\ PrintedBlocks[10].name # StrV(<<"1", "0">>).s

====
